---- MODULE Spec2Model ----
(***************************************************************************)
(* The continuous-monitoring alert pipeline of yflop/fedramp:              *)
(*   pkg/monitor AlertManager   (src/unnamed/part_000)                     *)
(*   pkg/monitor ContinuousMonitor (src/pkg/monitor/continuous_monitor.go) *)
(*                                                                         *)
(* Goroutines are modelled as processes with a program counter; one action *)
(* is one atomic step of the Go code (a channel operation, a mutex         *)
(* operation, a WaitGroup operation, a context cancellation).  A Go panic  *)
(* terminates the whole process: once a goroutine has panicked no action   *)
(* is enabled any more.                                                    *)
(***************************************************************************)
EXTENDS Integers, Sequences, FiniteSets, TLC

\* ---------------------------------------------------------------- bounds
\* Number of Alert objects ever passed to SendAlert (one call per object);
\* the objects are numbered in the order their SendAlert calls take effect.
MaxAlerts == 4
\* Buffer size of the alerts channel (make(chan *Alert, 1000) in the source,
\* scaled down so that the full queue is reached).
Capacity == 2
\* Number of calls of RegisterHandler after construction.
MaxRegs == 1
\* Number of ticks of the validation ticker that fire.
MaxTicks == 2
\* config.AlertThreshold.
AlertThreshold == 95
\* Largest window (in clock ticks) and largest threshold NewAlertAggregator
\* is called with.
MaxWindow == 2
MaxThreshold == 3
\* Number of AlertAggregator.Add calls made: enough to reach the threshold.
MaxAdds == MaxThreshold
\* Last reading of the clock (time.Now()); the first reading is 1, and an
\* alert stamped then is out of the largest window at the last reading.
MaxTime == MaxWindow + 2

Alerts == 1..MaxAlerts
\* One slot per call of ContinuousMonitor.Start: the goroutine running
\* AlertManager.Start and the processAlerts goroutine it launches.
Consumers == {1, 2}
\* Callers of ContinuousMonitor.Stop.
Stoppers == {"s1", "s2"}
\* Handler names: "webhook" is registered by NewAlertManager, "custom" is a
\* name a later RegisterHandler call may add.
Names == {"webhook", "custom"}
\* Handler implementations (values of the AlertHandler interface).
Impls == {"WebhookHandler", "CustomHandler"}
None == "none"

\* Validator names: "ksi" is registered by NewContinuousMonitor, "custom" is
\* a name a later RegisterValidator call may add.
VNames == {"ksi", "custom"}
\* Validator implementations (values of the Validator interface):
\* "KSIValidator" is the one NewContinuousMonitor registers, "CustomValidator"
\* the one a later RegisterValidator call passes.
VImpls == {"KSIValidator", "CustomValidator"}
\* getActiveCSOIDs(): the fixed entity list (two of its three entries).
CSOIds == {"CSO-001", "CSO-002"}
\* The (entity, validator name) pairs.
Pairs == CSOIds \X VNames
\* Collector names: "compliance" is registered by NewContinuousMonitor,
\* "custom" is a name a later RegisterCollector call may add.
CNames == {"compliance", "custom"}
\* Collector implementations (values of the MetricCollector interface).
CImpls == {"ComplianceCollector", "CustomCollector"}
\* The (entity, collector name) pairs.
MPairs == CSOIds \X CNames
\* What a Collect call hands back: an error, or a MetricData value.
MOutcomes == {"err", "data"}
\* Callers of RegisterValidator after construction.
Registrants == {"r1"}
\* config.EnabledChecks.
EnabledChecks == {"ksi"}
\* What a Validate call hands back: an error (and no result), or no error
\* and a result with its Valid flag and its Score (just below the
\* threshold, or equal to it).
ErrOutcome == [Err |-> TRUE, Valid |-> FALSE, Score |-> 0]
Results == [Err : {FALSE}, Valid : BOOLEAN, Score : {AlertThreshold - 1, AlertThreshold}]
Outcomes == {ErrOutcome} \cup Results

\* Strings are sequences of tokens.  The (Alert.CSOId, Alert.Severity,
\* Alert.Title) triples of the alerts handed to the aggregator: entity
\* identifiers and titles are free text and may hold a dash, severities are
\* "high" or "low".
Dash == <<"-">>
AggTriples ==
    {[CSOId |-> <<"CSO1">>, Severity |-> <<"low">>, Title |-> <<"high", "-", "cpu">>],
     [CSOId |-> <<"CSO1">>, Severity |-> <<"high">>, Title |-> <<"high", "-", "cpu">>],
     [CSOId |-> <<"CSO1", "-", "high">>, Severity |-> <<"high">>, Title |-> <<"cpu">>]}

VARIABLES
    alerts,      \* am.alerts: the buffered channel's contents, oldest first
    closed,      \* am.alerts has been closed
    amDone,      \* am.ctx is cancelled
    cmDone,      \* cm.ctx is cancelled
    wg,          \* am.wg counter
    handlers,    \* am.handlers: name -> implementation (None: not registered)
    muReaders,   \* am.mu: the consumers holding the read lock
    muWriter,    \* am.mu: <<>>, or the <<name, handler>> of the RegisterHandler holding the write lock
    regCalls,    \* number of RegisterHandler calls made after construction
    now,         \* the clock reading time.Now().UnixNano()
    alertID,     \* alert.ID of each Alert object (0: not assigned)
    sendState,   \* per SendAlert call: "new", "queued" (logged Infof), "dropped" (logged Errorf), "panicked"
    sendRet,     \* per SendAlert call: what the call handed back to its caller
    sentAt,      \* history: per SendAlert call, the clock reading it took (0: not made)
    pc,          \* per Start slot: position of the Start goroutine, then of its processAlerts goroutine
    loop,        \* per consumer: the loop handleAlert returns to ("select" or "drain")
    cur,         \* per consumer: the alert being handled (0: none)
    snap,        \* per consumer: handleAlert's local copy of am.handlers
    tasks,       \* per consumer: handleAlert's handler goroutines, name -> "none"/"running"/"ok"/"err"
    bound,       \* per consumer: name -> the handler value bound to the goroutine launched for it
    calls,       \* per consumer: name -> number of Handle calls made and returned for the current alert
    pcStop,      \* per Stop caller: position inside ContinuousMonitor.Stop / AlertManager.Stop
    stopCtx,     \* per Stop caller: what held when the call was made (history)
    accepted,    \* history: the alerts in the order the channel accepted them
    started,     \* history: alerts whose handler fan-out has begun
    processed,   \* history: alerts for which handleAlert reached storeAlert
    dispatches,  \* history: per alert, the number of am.handleAlert(alert) calls made
    aggMade,     \* NewAlertAggregator has been called
    aggWindow,   \* aa.window, in ticks
    aggThreshold,\* aa.threshold
    aggAlerts,   \* aa.alerts: key -> list of alerts, oldest first (<<>>: no entry)
    aggCalls,    \* history: per key, the Add calls made with it, in order
    validators,  \* cm.validators: name -> implementation (None: not registered)
    cmReaders,   \* cm.mu: the validation loops holding the read lock
    cmWriter,    \* cm.mu: <<>>, or <<registry, name, value>> of the Register call holding the write lock
    collectors,  \* cm.collectors: collector name -> implementation or None
    cmMReaders,  \* cm.mu: the metric loops holding the read lock
    cregCalls,   \* the callers that have called RegisterCollector
    msnap,       \* per Start slot: the local copy collectMetrics made
    mticks,      \* number of ticks of the metric ticker taken
    mtasks,      \* per (entity, collector) pair: collect goroutines in flight
    metrics,     \* per (entity, collector) pair: number of storeMetric calls made
    merrs,       \* history: per (entity, collector) pair, the Collect errors logged
    vregCalls,   \* the callers whose RegisterValidator call has been made
    vloop,       \* per Start slot: position of the validationLoop goroutine
    mloop,       \* per Start slot: position of the metricLoop goroutine
    vsnap,       \* per Start slot: runValidations' local copy of cm.validators
    vticks,      \* number of ticks of the validation ticker that have fired
    vtasks,      \* per pair: the task goroutines whose Validate call has not returned
    alertPair,   \* per Alert object: the pair whose task built it (CSOId and Title), <<>>: not built
    launched,    \* history: per pair, the task goroutines launched
    returned,    \* history: per pair, the Validate calls that have returned
    failed,      \* history: the pairs for which a Validate error was logged
    lastTick     \* history: the snapshot and the launches of the latest runValidations

vars == <<alerts, closed, amDone, cmDone, wg, handlers, muReaders, muWriter,
          regCalls, now, alertID, sendState, sendRet, sentAt, pc, loop, cur, snap,
          tasks, bound, calls, pcStop, stopCtx, accepted, started, processed,
          dispatches, aggMade, aggWindow, aggThreshold, aggAlerts, aggCalls,
          validators, cmReaders, cmWriter, vregCalls, collectors, cmMReaders,
          cregCalls, msnap, mticks, mtasks, metrics, merrs, vloop, mloop,
          vsnap,
          vticks, vtasks, alertPair, launched, returned, failed, lastTick>>

chanVars == <<alerts, closed>>
ctxVars == <<amDone, cmDone>>
regVars == <<handlers, muWriter, regCalls>>
sendVars == <<now, alertID, sendState, sendRet, sentAt, accepted>>
consVars == <<pc, loop, cur, snap, tasks, bound, calls>>
stopVars == <<pcStop, stopCtx>>
histVars == <<started, processed, dispatches>>
aggVars == <<aggMade, aggWindow, aggThreshold, aggAlerts, aggCalls>>
vregVars == <<validators, cmWriter, vregCalls>>
loopVars == <<vloop, mloop, vsnap, vticks>>
taskVars == <<vtasks, alertPair, launched, returned, failed>>
metricVars == <<collectors, cmMReaders, cregCalls, msnap, mticks, mtasks, metrics,
               merrs>>
schedVars == <<vregVars, cmReaders, loopVars, taskVars, lastTick, metricVars>>

\* ------------------------------------------------------------ helpers
NoHandlers == [n \in Names |-> None]
NoTasks == [n \in Names |-> "none"]
NoCalls == [n \in Names |-> 0]
Registered(reg) == {n \in Names : reg[n] # None}
NoValidators == [n \in VNames |-> None]
NoCollectors == [n \in CNames |-> None]

\* fmt.Sprintf("%s-%s-%s", alert.CSOId, alert.Severity, alert.Title)
KeyOf(al) == al.CSOId \o Dash \o al.Severity \o Dash \o al.Title

\* The alerts the aggregator is handed at clock reading t: any of the
\* triples, with a Timestamp of the current or the previous clock reading.
AggInputs(t) ==
    {[CSOId |-> tr.CSOId, Severity |-> tr.Severity, Title |-> tr.Title,
      Timestamp |-> u] : tr \in AggTriples, u \in {t - 1, t}}

\* The keys of aa.alerts that the inputs can produce.
AggKeys == {KeyOf(tr) : tr \in AggTriples}

\* A panic in any goroutine ends the process.
panicked ==
    \/ \E a \in Alerts : sendState[a] = "panicked"
    \/ \E s \in Stoppers : pcStop[s] = "panicked"

\* ------------------------------------------------------------ initial state
\* NewContinuousMonitor -> NewAlertManager: empty open channel, fresh contexts,
\* zero WaitGroup, the default handlers registered (one of the four defaults
\* is kept: "webhook").
Init ==
    /\ alerts = <<>>
    /\ closed = FALSE
    /\ amDone = FALSE
    /\ cmDone = FALSE
    /\ wg = 0
    /\ handlers = [n \in Names |-> IF n = "webhook" THEN "WebhookHandler" ELSE None]
    /\ muReaders = {}
    /\ muWriter = <<>>
    /\ regCalls = 0
    /\ now = 1
    /\ alertID = [a \in Alerts |-> 0]
    /\ sendState = [a \in Alerts |-> "new"]
    /\ sendRet = [a \in Alerts |-> "pending"]
    /\ sentAt = [a \in Alerts |-> 0]
    /\ pc = [c \in Consumers |-> "idle"]
    /\ loop = [c \in Consumers |-> "select"]
    /\ cur = [c \in Consumers |-> 0]
    /\ snap = [c \in Consumers |-> NoHandlers]
    /\ tasks = [c \in Consumers |-> NoTasks]
    /\ bound = [c \in Consumers |-> NoHandlers]
    /\ calls = [c \in Consumers |-> NoCalls]
    /\ pcStop = [s \in Stoppers |-> "idle"]
    /\ stopCtx = [s \in Stoppers |-> [buf |-> {}, started |-> FALSE, late |-> FALSE]]
    /\ accepted = <<>>
    /\ started = {}
    /\ processed = {}
    /\ dispatches = [a \in Alerts |-> 0]
    /\ aggMade = FALSE
    /\ aggWindow = 0
    /\ aggThreshold = 0
    /\ aggAlerts = [k \in AggKeys |-> <<>>]
    /\ aggCalls = [k \in AggKeys |-> <<>>]
    /\ validators = [n \in VNames |-> IF n = "ksi" THEN "KSIValidator" ELSE None]
    /\ cmReaders = {}
    /\ cmWriter = <<>>
    /\ vregCalls = {}
    /\ collectors = [n \in CNames |-> IF n = "compliance" THEN "ComplianceCollector" ELSE None]
    /\ cmMReaders = {}
    /\ cregCalls = {}
    /\ msnap = [c \in Consumers |-> NoCollectors]
    /\ mticks = 0
    /\ mtasks = [p \in MPairs |-> 0]
    /\ metrics = [p \in MPairs |-> 0]
    /\ merrs = [p \in MPairs |-> 0]
    /\ vloop = [c \in Consumers |-> "none"]
    /\ mloop = [c \in Consumers |-> "none"]
    /\ vsnap = [c \in Consumers |-> NoValidators]
    /\ vticks = 0
    /\ vtasks = [p \in Pairs |-> 0]
    /\ alertPair = [a \in Alerts |-> <<>>]
    /\ launched = [p \in Pairs |-> 0]
    /\ returned = [p \in Pairs |-> 0]
    /\ failed = {}
    /\ lastTick = [made |-> FALSE, copy |-> NoValidators, tasks |-> [p \in Pairs |-> 0]]

\* ------------------------------------------------------------ RegisterHandler
\* am.mu.Lock(): waits until no reader and no writer holds am.mu.
RegisterHandler_Lock(n, h) ==
    /\ ~panicked
    /\ regCalls < MaxRegs
    /\ muWriter = <<>>
    /\ muReaders = {}
    /\ muWriter' = <<n, h>>
    /\ regCalls' = regCalls + 1
    /\ UNCHANGED <<aggVars, schedVars, handlers, muReaders, chanVars, ctxVars, wg, sendVars,
                   consVars, stopVars, histVars>>

\* Variant of Put: a name that is already registered keeps its handler.
Put_KeepFirst(reg, n, h) == IF reg[n] # None THEN reg ELSE [reg EXCEPT ![n] = h]

\* am.handlers[name] = handler: a Go map assignment, insert or replace.
Put(reg, n, h) == [reg EXCEPT ![n] = h]

\* am.handlers[name] = handler; deferred am.mu.Unlock().
RegisterHandler_Unlock ==
    /\ ~panicked
    /\ muWriter # <<>>
    /\ handlers' = Put(handlers, muWriter[1], muWriter[2])
    /\ muWriter' = <<>>
    /\ UNCHANGED <<aggVars, schedVars, regCalls, muReaders, chanVars, ctxVars, wg, sendVars,
                   consVars, stopVars, histVars>>

\* ------------------------------------------------------------ SendAlert
\* Variant of SelectSend: the room test is off by one.
SelectSend_OffByOne ==
    IF closed THEN "panicked"
    ELSE IF Len(alerts) <= Capacity THEN "queued"
    ELSE "dropped"

\* The outcome of `select { case am.alerts <- alert: ... default: ... }`:
\* a send on a closed channel panics; otherwise the send is taken when the
\* buffer has room, and the default branch when it has not.
SelectSend ==
    IF closed THEN "panicked"
    ELSE IF Len(alerts) < Capacity THEN "queued"
    ELSE "dropped"

\* Variant of SendAlert: a plain `am.alerts <- alert` with no default branch,
\* which waits for room in the buffer.
SendAlert_Blocking(a) ==
    /\ ~panicked
    /\ sendState[a] = "new"
    /\ \A b \in Alerts : b < a => sendState[b] # "new"
    /\ closed \/ Len(alerts) < Capacity
    /\ alertID' = [alertID EXCEPT ![a] = now]
    /\ sendState' = [sendState EXCEPT ![a] = IF closed THEN "panicked" ELSE "queued"]
    /\ sendRet' = [sendRet EXCEPT ![a] = IF closed THEN "pending" ELSE "void"]
    /\ sentAt' = [sentAt EXCEPT ![a] = now]
    /\ alerts' = IF closed THEN alerts ELSE Append(alerts, a)
    /\ accepted' = IF closed THEN accepted ELSE Append(accepted, a)
    /\ UNCHANGED <<aggVars, schedVars, closed, now, ctxVars, wg, regVars, muReaders, consVars,
                   stopVars, histVars>>

\* Variant of AssignID: the ID is made from a coarser unit of the clock
\* reading (two ticks to the unit).
AssignID_Coarse(ids, a) == [ids EXCEPT ![a] = (now + 1) \div 2]

\* Variant of AssignID: the identifier is kept in one place shared by all
\* alerts, so that every alert that has an ID takes the new one.
AssignID_Shared(ids, a) ==
    [b \in Alerts |-> IF b = a \/ ids[b] # 0 THEN now ELSE 0]

\* alert.ID = fmt.Sprintf("ALERT-%d", time.Now().UnixNano()): the ID field
\* of this Alert object, and of no other, is set from the clock reading.
AssignID(ids, a) == [ids EXCEPT ![a] = now]

\* The body of SendAlert(alert): the ID is written to the caller's Alert
\* object, which no other goroutine can reach before the send, so the
\* assignment and the select are one step.  The function has no result: the
\* caller is handed nothing ("void") on both branches.
SendAlert_Body(a) ==
    /\ ~panicked
    /\ sendState[a] = "new"
    /\ \A b \in Alerts : b < a => sendState[b] # "new"
    /\ alertID' = AssignID(alertID, a)
    /\ sendState' = [sendState EXCEPT ![a] = SelectSend]
    /\ sendRet' = [sendRet EXCEPT ![a] = IF SelectSend = "panicked" THEN "pending" ELSE "void"]
    /\ sentAt' = [sentAt EXCEPT ![a] = now]
    /\ alerts' = IF SelectSend = "queued" THEN Append(alerts, a) ELSE alerts
    /\ accepted' = IF SelectSend = "queued" THEN Append(accepted, a) ELSE accepted
    /\ UNCHANGED <<aggVars, metricVars, closed, now, ctxVars, wg, regVars, muReaders, consVars,
                   stopVars, histVars>>

\* SendAlert(alert) called on an Alert object by a caller outside the
\* scheduler's tasks.
SendAlert(a) ==
    /\ SendAlert_Body(a)
    /\ UNCHANGED schedVars

\* ------------------------------------------------------------ Start
\* ContinuousMonitor.Start: `go cm.validationLoop()` and `go cm.metricLoop()`
\* create the two loop goroutines, and `go cm.alertManager.Start()` creates
\* a goroutine that will run AlertManager.Start; Start itself returns at
\* once.  Nothing in Start or in its callers refuses a second call.
CMStart(c) ==
    /\ ~panicked
    /\ pc[c] = "idle"
    /\ \A d \in Consumers : d < c => pc[d] # "idle"
    /\ vloop' = [vloop EXCEPT ![c] = "select"]
    /\ mloop' = [mloop EXCEPT ![c] = "select"]
    /\ pc' = [pc EXCEPT ![c] = "add"]
    /\ UNCHANGED <<aggVars, metricVars, vregVars, cmReaders, vsnap, vticks, taskVars, lastTick, loop, cur, snap, tasks, bound, calls, chanVars, ctxVars, wg, regVars,
                   muReaders, sendVars, stopVars, histVars>>

\* AlertManager.Start, first statement: am.wg.Add(1).
AMStart_Add(c) ==
    /\ ~panicked
    /\ pc[c] = "add"
    /\ wg' = wg + 1
    /\ pc' = [pc EXCEPT ![c] = "go"]
    /\ UNCHANGED <<aggVars, schedVars, loop, cur, snap, tasks, bound, calls, chanVars, ctxVars, regVars,
                   muReaders, sendVars, stopVars, histVars>>

\* AlertManager.Start, second statement: go am.processAlerts().
AMStart_Go(c) ==
    /\ ~panicked
    /\ pc[c] = "go"
    /\ pc' = [pc EXCEPT ![c] = "select"]
    /\ UNCHANGED <<aggVars, schedVars, loop, cur, snap, tasks, bound, calls, chanVars, ctxVars, wg, regVars,
                   muReaders, sendVars, stopVars, histVars>>

\* ------------------------------------------------------------ processAlerts
\* Variant of AfterReceive: the receive reads the oldest element and leaves
\* it in the buffer.
AfterReceive_Peek(q) == q

\* What a receive leaves in the channel's buffer: the oldest element is
\* taken out.
AfterReceive(q) == Tail(q)

\* A receive from am.alerts that yields an alert (ok = true): the oldest
\* buffered element, whether or not the channel is closed.  `from` is the
\* loop the receive belongs to: the select loop or the drain loop; the
\* loop's body is the call am.handleAlert(alert).
Receive(c, from) ==
    /\ ~panicked
    /\ pc[c] = from
    /\ alerts # <<>>
    /\ cur' = [cur EXCEPT ![c] = Head(alerts)]
    /\ alerts' = AfterReceive(alerts)
    /\ dispatches' = [dispatches EXCEPT ![Head(alerts)] = @ + 1]
    /\ loop' = [loop EXCEPT ![c] = from]
    /\ pc' = [pc EXCEPT ![c] = "handle"]
    /\ UNCHANGED <<aggVars, schedVars, snap, tasks, bound, calls, closed, ctxVars, wg, regVars,
                   muReaders, sendVars, stopVars, started, processed>>

\* A receive from the closed and empty channel (ok = false, or the end of
\* `range`): the goroutine returns and the deferred am.wg.Done() runs.
ReceiveClosed(c, from) ==
    /\ ~panicked
    /\ pc[c] = from
    /\ alerts = <<>>
    /\ closed
    /\ wg' = wg - 1
    /\ pc' = [pc EXCEPT ![c] = "exit"]
    /\ UNCHANGED <<aggVars, schedVars, loop, cur, snap, tasks, bound, calls, chanVars, ctxVars, regVars,
                   muReaders, sendVars, stopVars, histVars>>

\* select, case alert, ok := <-am.alerts with ok: am.handleAlert(alert).
processAlerts_Recv(c) == Receive(c, "select")

\* select, case alert, ok := <-am.alerts with !ok: return.
processAlerts_Closed(c) == ReceiveClosed(c, "select")

\* select, case <-am.ctx.Done(): enter `for alert := range am.alerts`.
processAlerts_CtxDone(c) ==
    /\ ~panicked
    /\ pc[c] = "select"
    /\ amDone
    /\ pc' = [pc EXCEPT ![c] = "drain"]
    /\ UNCHANGED <<aggVars, schedVars, loop, cur, snap, tasks, bound, calls, chanVars, ctxVars, wg, regVars,
                   muReaders, sendVars, stopVars, histVars>>

\* for alert := range am.alerts { am.handleAlert(alert) }
processAlerts_Drain(c) == Receive(c, "drain")

\* the range loop ends on the closed, empty channel: return.
processAlerts_DrainEnd(c) == ReceiveClosed(c, "drain")

\* ------------------------------------------------------------ handleAlert
\* am.mu.RLock(): waits while a writer holds am.mu.
handleAlert_RLock(c) ==
    /\ ~panicked
    /\ pc[c] = "handle"
    /\ muWriter = <<>>
    /\ muReaders' = muReaders \cup {c}
    /\ pc' = [pc EXCEPT ![c] = "rlocked"]
    /\ UNCHANGED <<aggVars, schedVars, loop, cur, snap, tasks, bound, calls, chanVars, ctxVars, wg, regVars,
                   sendVars, stopVars, histVars>>

\* The read lock is released once the copy is made, before any handler runs.
ReadersAfterCopy(c) == muReaders \ {c}

\* handlers := copy of am.handlers; am.mu.RUnlock().
handleAlert_Snapshot(c) ==
    /\ ~panicked
    /\ pc[c] = "rlocked"
    /\ snap' = [snap EXCEPT ![c] = handlers]
    /\ muReaders' = ReadersAfterCopy(c)
    /\ pc' = [pc EXCEPT ![c] = "spawn"]
    /\ UNCHANGED <<aggVars, schedVars, loop, cur, tasks, bound, calls, chanVars, ctxVars, wg,
                   regVars, sendVars, stopVars, histVars>>

\* Variant of FanOutHandlers: the loop ranges over am.handlers itself.
FanOutHandlers_Live(c) == handlers

\* The map the fan-out loop ranges over: the local copy.
FanOutHandlers(c) == snap[c]

\* for name, handler := range handlers { wg.Add(1); go func(...){ h.Handle(a) ... } }
\* One goroutine per entry of the map ranged over, bound to that entry's
\* name and handler.
handleAlert_FanOut(c) ==
    /\ ~panicked
    /\ pc[c] = "spawn"
    /\ tasks' = [tasks EXCEPT ![c] =
                    [n \in Names |-> IF FanOutHandlers(c)[n] # None THEN "running" ELSE "none"]]
    /\ bound' = [bound EXCEPT ![c] = FanOutHandlers(c)]
    /\ started' = started \cup {cur[c]}
    /\ pc' = [pc EXCEPT ![c] = "wait"]
    /\ UNCHANGED <<aggVars, schedVars, loop, cur, snap, calls, processed, dispatches, chanVars,
                   ctxVars, wg, regVars, muReaders, sendVars, stopVars>>

\* Variant of AfterReturn: an error return cancels the sibling goroutines
\* that have not returned yet.
AfterReturn_CancelOnError(t, n, r) ==
    IF r = "err"
    THEN [m \in Names |-> IF m = n THEN r ELSE IF t[m] = "running" THEN "none" ELSE t[m]]
    ELSE [t EXCEPT ![n] = r]

\* What the return of handler n's Handle call (r = "ok" or "err") does to the
\* goroutines of the fan-out: n's goroutine ends; an error is only logged and
\* the sibling goroutines keep running.
AfterReturn(t, n, r) == [t EXCEPT ![n] = r]

\* h.Handle(a) returns, with an error (r = "err", logged with Errorf) or
\* without (r = "ok"); deferred wg.Done().
Handle_Return(c, n, r) ==
    /\ ~panicked
    /\ pc[c] = "wait"
    /\ tasks[c][n] = "running"
    /\ tasks' = [tasks EXCEPT ![c] = AfterReturn(tasks[c], n, r)]
    /\ calls' = [calls EXCEPT ![c][n] = @ + 1]
    /\ UNCHANGED <<aggVars, schedVars, pc, loop, cur, snap, bound, chanVars, ctxVars, wg, regVars,
                   muReaders, sendVars, stopVars, histVars>>

\* Variant of WaitPasses: the wait never passes once a handler has failed.
WaitPasses_UnlessError(c) ==
    /\ \A n \in Names : tasks[c][n] # "running"
    /\ \A n \in Names : tasks[c][n] # "err"

\* wg.Wait() passes when every handler goroutine has returned.
WaitPasses(c) == \A n \in Names : tasks[c][n] # "running"

\* wg.Wait(); am.storeAlert(alert); return to the loop that called
\* handleAlert.  The locals of handleAlert and its goroutines are gone.
handleAlert_Wait(c) ==
    /\ ~panicked
    /\ pc[c] = "wait"
    /\ WaitPasses(c)
    /\ processed' = processed \cup {cur[c]}
    /\ tasks' = [tasks EXCEPT ![c] = NoTasks]
    /\ snap' = [snap EXCEPT ![c] = NoHandlers]
    /\ bound' = [bound EXCEPT ![c] = NoHandlers]
    /\ calls' = [calls EXCEPT ![c] = NoCalls]
    /\ cur' = [cur EXCEPT ![c] = 0]
    /\ pc' = [pc EXCEPT ![c] = loop[c]]
    /\ UNCHANGED <<aggVars, schedVars, loop, started, dispatches, chanVars, ctxVars, wg, regVars,
                   muReaders, sendVars, stopVars>>

\* ------------------------------------------------------------ Stop
\* ContinuousMonitor.Stop, first statement: cm.cancel().  stopCtx records
\* what held when the call was made.
CMStop_cancel(s) ==
    /\ ~panicked
    /\ pcStop[s] = "idle"
    /\ s = "s2" => pcStop["s1"] # "idle"
    /\ cmDone' = TRUE
    /\ pcStop' = [pcStop EXCEPT ![s] = "amcancel"]
    /\ stopCtx' = [stopCtx EXCEPT ![s] =
                      [buf |-> {alerts[i] : i \in 1..Len(alerts)},
                       started |-> \E c \in Consumers : pc[c] # "idle",
                       late |-> \E t \in Stoppers : pcStop[t] = "returned"]]
    /\ UNCHANGED <<aggVars, schedVars, amDone, chanVars, wg, regVars, muReaders, sendVars,
                   consVars, histVars>>

\* AlertManager.Stop, first statement: am.cancel().
AMStop_cancel(s) ==
    /\ ~panicked
    /\ pcStop[s] = "amcancel"
    /\ amDone' = TRUE
    /\ pcStop' = [pcStop EXCEPT ![s] = "close"]
    /\ UNCHANGED <<aggVars, schedVars, cmDone, stopCtx, chanVars, wg, regVars, muReaders, sendVars,
                   consVars, histVars>>

\* AlertManager.Stop, second statement: close(am.alerts).  Closing a closed
\* channel panics.
AMStop_close(s) ==
    /\ ~panicked
    /\ pcStop[s] = "close"
    /\ closed' = TRUE
    /\ pcStop' = [pcStop EXCEPT ![s] = IF closed THEN "panicked" ELSE "wait"]
    /\ UNCHANGED <<aggVars, schedVars, alerts, stopCtx, ctxVars, wg, regVars, muReaders, sendVars,
                   consVars, histVars>>

\* AlertManager.Stop, third statement: am.wg.Wait() passes when the counter
\* is zero; then return nil.
AMStop_Wait(s) ==
    /\ ~panicked
    /\ pcStop[s] = "wait"
    /\ wg = 0
    /\ pcStop' = [pcStop EXCEPT ![s] = "returned"]
    /\ UNCHANGED <<aggVars, schedVars, stopCtx, chanVars, ctxVars, wg, regVars, muReaders, sendVars,
                   consVars, histVars>>

\* ------------------------------------------------------------ clock
\* Time passes: the next reading of time.Now() is later.
Tick ==
    /\ ~panicked
    /\ now < MaxTime
    /\ now' = now + 1
    /\ UNCHANGED <<aggVars, schedVars, chanVars, ctxVars, wg, regVars, muReaders, alertID,
                   sendState, sendRet, sentAt, accepted, consVars, stopVars,
                   histVars>>

\* ------------------------------------------------------------ AlertAggregator
\* NewAlertAggregator(window, threshold): an empty map and the two
\* parameters, which no method changes afterwards.
NewAlertAggregator(w, th) ==
    /\ ~panicked
    /\ ~aggMade
    /\ aggMade' = TRUE
    /\ aggWindow' = w
    /\ aggThreshold' = th
    /\ aggAlerts' = [k \in AggKeys |-> <<>>]
    /\ UNCHANGED <<aggCalls, schedVars, chanVars, ctxVars, wg, regVars,
                   muReaders, sendVars, consVars, stopVars, histVars>>

\* Variant of After: the comparison is made one tick inside the cutoff.
After_Narrow(t, cutoff) == t > cutoff + 1

\* a.Timestamp.After(cutoff)
After(t, cutoff) == t > cutoff

\* Variant of Prune: nothing is removed.
Prune_Nothing(list, cutoff) == list

\* The loop building `filtered`: the entries of the key's list whose
\* Timestamp is after the cutoff, in their order.
Prune(list, cutoff) ==
    LET Kept(al) == After(al.Timestamp, cutoff) IN SelectSeq(list, Kept)

\* Variant of Reached: the comparison is strict.
Reached_Strict(n, th) == n > th

\* return len(aa.alerts[key]) >= aa.threshold
Reached(n, th) == n >= th

\* The key's list once Add has run: pruned against
\* cutoff = time.Now().Add(-aa.window), then the alert appended.
AddList(al) == Append(Prune(aggAlerts[KeyOf(al)], now - aggWindow), al)

\* Variant of MapAfterAdd: every list of the map is pruned against the
\* cutoff (a global sweep).
MapAfterAdd_Sweep(m, k, list) ==
    [j \in AggKeys |-> IF j = k THEN list ELSE Prune(m[j], now - aggWindow)]

\* aa.alerts[key] = ...: the two assignments of Add write the entry of the
\* alert's key and no other entry of the map.
MapAfterAdd(m, k, list) == [m EXCEPT ![k] = list]

\* AlertAggregator.Add(alert), under aa.mu held for the whole call.  The
\* history records the call: the alert, the clock reading, the key's list
\* at the return, its length and the value returned.
Add(al) ==
    /\ ~panicked
    /\ aggMade
    /\ aggAlerts' = MapAfterAdd(aggAlerts, KeyOf(al), AddList(al))
    /\ aggCalls' = [aggCalls EXCEPT ![KeyOf(al)] =
                       Append(@, [alert |-> al, at |-> now,
                                  list |-> AddList(al),
                                  count |-> Len(AddList(al)),
                                  ret |-> Reached(Len(AddList(al)), aggThreshold)])]
    /\ UNCHANGED <<aggMade, aggWindow, aggThreshold, schedVars, chanVars,
                   ctxVars, wg, regVars, muReaders, sendVars, consVars, stopVars,
                   histVars>>

\* The Add calls made so far.
AddsMade ==
    LET RECURSIVE Sum(_)
        Sum(K) == IF K = {} THEN 0
                  ELSE LET k == CHOOSE x \in K : TRUE
                       IN Len(aggCalls[k]) + Sum(K \ {k})
    IN Sum(AggKeys)

\* ------------------------------------------------------------ RegisterValidator
\* cm.mu.Lock(): waits until no reader and no writer holds cm.mu.
RegisterValidator_Lock(r, n, v) ==
    /\ ~panicked
    /\ r \notin vregCalls
    /\ cmWriter = <<>>
    /\ cmReaders = {}
    /\ cmMReaders = {}
    /\ cmWriter' = <<"validators", n, v>>
    /\ vregCalls' = vregCalls \cup {r}
    /\ UNCHANGED <<aggVars, metricVars, validators, cmReaders, loopVars, taskVars, lastTick,
                   chanVars, ctxVars, wg, regVars, muReaders, sendVars,
                   consVars, stopVars, histVars>>

\* cm.validators[name] = validator; deferred cm.mu.Unlock().
RegisterValidator_Unlock ==
    /\ ~panicked
    /\ cmWriter # <<>>
    /\ cmWriter[1] = "validators"
    /\ validators' = [validators EXCEPT ![cmWriter[2]] = cmWriter[3]]
    /\ cmWriter' = <<>>
    /\ UNCHANGED <<aggVars, metricVars, vregCalls, cmReaders, loopVars, taskVars, lastTick,
                   chanVars, ctxVars, wg, regVars, muReaders, sendVars,
                   consVars, stopVars, histVars>>

\* ------------------------------------------------------------ validationLoop
\* select, case <-ticker.C: the ticker fires and runValidations is called.
\* When the context is cancelled as well, the select may still take this
\* case.
validationLoop_Tick(c) ==
    /\ ~panicked
    /\ vloop[c] = "select"
    /\ vticks < MaxTicks
    /\ vticks' = vticks + 1
    /\ vloop' = [vloop EXCEPT ![c] = "rlock"]
    /\ UNCHANGED <<aggVars, metricVars, vregVars, cmReaders, mloop, vsnap, taskVars, lastTick,
                   chanVars, ctxVars, wg, regVars, muReaders, sendVars,
                   consVars, stopVars, histVars>>

\* select, case <-cm.ctx.Done(): return.
validationLoop_Done(c) ==
    /\ ~panicked
    /\ vloop[c] = "select"
    /\ cmDone
    /\ vloop' = [vloop EXCEPT ![c] = "exited"]
    /\ UNCHANGED <<aggVars, metricVars, vregVars, cmReaders, mloop, vsnap, vticks, taskVars,
                   lastTick, chanVars, ctxVars, wg, regVars, muReaders,
                   sendVars, consVars, stopVars, histVars>>

\* metricLoop's select, case <-cm.ctx.Done(): return.
metricLoop_Done(c) ==
    /\ ~panicked
    /\ mloop[c] = "select"
    /\ cmDone
    /\ mloop' = [mloop EXCEPT ![c] = "exited"]
    /\ UNCHANGED <<aggVars, metricVars, vregVars, cmReaders, vloop, vsnap, vticks, taskVars,
                   lastTick, chanVars, ctxVars, wg, regVars, muReaders,
                   sendVars, consVars, stopVars, histVars>>

\* ------------------------------------------------------------ runValidations
\* cm.mu.RLock(): waits while a writer holds cm.mu.
runValidations_RLock(c) ==
    /\ ~panicked
    /\ vloop[c] = "rlock"
    /\ cmWriter = <<>>
    /\ cmReaders' = cmReaders \cup {c}
    /\ vloop' = [vloop EXCEPT ![c] = "rlocked"]
    /\ UNCHANGED <<aggVars, metricVars, vregVars, mloop, vsnap, vticks, taskVars, lastTick,
                   chanVars, ctxVars, wg, regVars, muReaders, sendVars,
                   consVars, stopVars, histVars>>

\* Variant of SnapshotRelease: the read lock is not released after the copy.
SnapshotRelease_Keep(readers, c) == readers

\* cm.mu.RUnlock() directly after the copy loop, in runValidations and in
\* collectMetrics alike: c no longer holds the read lock.
SnapshotRelease(readers, c) == readers \ {c}

\* validators := copy of cm.validators; cm.mu.RUnlock().
runValidations_Snapshot(c) ==
    /\ ~panicked
    /\ vloop[c] = "rlocked"
    /\ vsnap' = [vsnap EXCEPT ![c] = validators]
    /\ cmReaders' = SnapshotRelease(cmReaders, c)
    /\ vloop' = [vloop EXCEPT ![c] = "launch"]
    /\ UNCHANGED <<aggVars, metricVars, vregVars, mloop, vticks, taskVars, lastTick,
                   chanVars, ctxVars, wg, regVars, muReaders, sendVars,
                   consVars, stopVars, histVars>>

\* Variant of isCheckEnabled: every check is enabled.
isCheckEnabled_Always(n) == TRUE

\* isCheckEnabled(checkName): the name is in config.EnabledChecks.
isCheckEnabled(n) == n \in EnabledChecks

\* The number of goroutines the two nested loops of runValidations launch
\* for pair p = <<csoID, name>>: one when the name is in the local copy and
\* the check is enabled, none otherwise (`continue`).
Launches(copy, p) ==
    IF copy[p[2]] # None /\ isCheckEnabled(p[2]) THEN 1 ELSE 0

\* Variant of AfterLaunch: runValidations joins the goroutines it launched
\* before it returns.
AfterLaunch_Join(t) == IF \A p \in Pairs : t[p] = 0 THEN "select" ELSE "join"

\* Where the loop goroutine is once runValidations has launched its tasks,
\* t being the tasks then in flight: `go func(...)` does not wait and
\* runValidations has no WaitGroup, so it returns and the loop is at its
\* select again.
AfterLaunch(t) == "select"

\* csoIDs := cm.getActiveCSOIDs(); for each csoID, for each (name, validator)
\* of the copy: skip the disabled checks, `go func(n, v, cid)` for the
\* others.  runValidations returns and the loop is back at its select.
runValidations_Launch(c) ==
    /\ ~panicked
    /\ vloop[c] = "launch"
    /\ vtasks' = [p \in Pairs |-> vtasks[p] + Launches(vsnap[c], p)]
    /\ launched' = [p \in Pairs |-> launched[p] + Launches(vsnap[c], p)]
    /\ lastTick' = [made |-> TRUE, copy |-> vsnap[c],
                    tasks |-> [p \in Pairs |-> vtasks'[p] - vtasks[p]]]
    /\ vsnap' = [vsnap EXCEPT ![c] = NoValidators]
    /\ vloop' = [vloop EXCEPT ![c] = AfterLaunch(vtasks')]
    /\ UNCHANGED <<aggVars, metricVars, vregVars, cmReaders, mloop, vticks, alertPair,
                   returned, failed, chanVars, ctxVars, wg, regVars,
                   muReaders, sendVars, consVars, stopVars, histVars>>

\* ------------------------------------------------------------ validation task
\* Variant of NeedsAlert: the score comparison is not strict.
NeedsAlert_Inclusive(r) == ~r.Valid \/ r.Score <= AlertThreshold

\* if !result.Valid || result.Score < cm.config.AlertThreshold
NeedsAlert(r) == ~r.Valid \/ r.Score < AlertThreshold

\* Variant of TasksAfter: a Validate error ends every task in flight.
TasksAfter_AbortOnError(t, p, out) ==
    IF out.Err THEN [q \in Pairs |-> 0] ELSE [t EXCEPT ![p] = @ - 1]

\* The task goroutines in flight once a task of pair p has ended with
\* outcome `out`: that goroutine is gone, the others are untouched.
TasksAfter(t, p, out) == [t EXCEPT ![p] = @ - 1]

\* The task goroutine of pair p = <<cid, n>>: v.Validate(cm.ctx, cid)
\* returns.  With an error: log and return.  With a result:
\* processValidationResult stores it and, when it is not valid or scores
\* below the threshold, builds an Alert for the pair and calls SendAlert on
\* it.  Everything between the return of Validate and the select of
\* SendAlert is local to the goroutine.
Task_Return(p, out) ==
    /\ ~panicked
    /\ vtasks[p] > 0
    /\ vtasks' = TasksAfter(vtasks, p, out)
    /\ returned' = [returned EXCEPT ![p] = @ + 1]
    /\ failed' = IF out.Err THEN failed \cup {p} ELSE failed
    /\ IF ~out.Err /\ NeedsAlert(out)
       THEN \E a \in Alerts :
               /\ SendAlert_Body(a)
               /\ alertPair' = [alertPair EXCEPT ![a] = p]
       ELSE UNCHANGED <<alertPair, aggVars, chanVars, ctxVars, wg, regVars,
                        muReaders, sendVars, consVars, stopVars, histVars>>
    /\ UNCHANGED <<vregVars, cmReaders, loopVars, launched, lastTick, metricVars>>

\* ------------------------------------------------------------ RegisterCollector
\* cm.mu.Lock(): the same lock as RegisterValidator; caller r waits until no
\* reader and no writer holds cm.mu.
RegisterCollector_Lock(r, n, v) ==
    /\ ~panicked
    /\ r \notin cregCalls
    /\ cmWriter = <<>>
    /\ cmReaders = {}
    /\ cmMReaders = {}
    /\ cmWriter' = <<"collectors", n, v>>
    /\ cregCalls' = cregCalls \cup {r}
    /\ UNCHANGED <<aggVars, validators, vregCalls, cmReaders, loopVars, taskVars,
                   lastTick, collectors, cmMReaders, msnap, mticks, mtasks,
                   metrics, merrs, chanVars, ctxVars, wg, regVars, muReaders,
                   sendVars, consVars, stopVars, histVars>>

\* cm.collectors[name] = collector; deferred cm.mu.Unlock().
RegisterCollector_Unlock ==
    /\ ~panicked
    /\ cmWriter # <<>>
    /\ cmWriter[1] = "collectors"
    /\ collectors' = [collectors EXCEPT ![cmWriter[2]] = cmWriter[3]]
    /\ cmWriter' = <<>>
    /\ UNCHANGED <<aggVars, validators, vregCalls, cmReaders, loopVars, taskVars,
                   lastTick, cmMReaders, cregCalls, msnap, mticks, mtasks,
                   metrics, merrs, chanVars, ctxVars, wg, regVars, muReaders,
                   sendVars, consVars, stopVars, histVars>>

\* ------------------------------------------------------------ metricLoop
\* select, case <-ticker.C: the ticker fires and collectMetrics is called.
metricLoop_Tick(c) ==
    /\ ~panicked
    /\ mloop[c] = "select"
    /\ mticks < MaxTicks
    /\ mticks' = mticks + 1
    /\ mloop' = [mloop EXCEPT ![c] = "rlock"]
    /\ UNCHANGED <<aggVars, vregVars, cmReaders, vloop, vsnap, vticks, taskVars,
                   lastTick, collectors, cmMReaders, cregCalls, msnap, mtasks,
                   metrics, merrs, chanVars, ctxVars, wg, regVars, muReaders,
                   sendVars, consVars, stopVars, histVars>>

\* ------------------------------------------------------------ collectMetrics
\* cm.mu.RLock(): waits while a writer holds cm.mu.
collectMetrics_RLock(c) ==
    /\ ~panicked
    /\ mloop[c] = "rlock"
    /\ cmWriter = <<>>
    /\ cmMReaders' = cmMReaders \cup {c}
    /\ mloop' = [mloop EXCEPT ![c] = "rlocked"]
    /\ UNCHANGED <<aggVars, vregVars, cmReaders, vloop, vsnap, vticks, taskVars,
                   lastTick, collectors, cregCalls, msnap, mticks, mtasks,
                   metrics, merrs, chanVars, ctxVars, wg, regVars, muReaders,
                   sendVars, consVars, stopVars, histVars>>

\* collectors := copy of cm.collectors; cm.mu.RUnlock().
collectMetrics_Snapshot(c) ==
    /\ ~panicked
    /\ mloop[c] = "rlocked"
    /\ msnap' = [msnap EXCEPT ![c] = collectors]
    /\ cmMReaders' = SnapshotRelease(cmMReaders, c)
    /\ mloop' = [mloop EXCEPT ![c] = "launch"]
    /\ UNCHANGED <<aggVars, vregVars, cmReaders, vloop, vsnap, vticks, taskVars,
                   lastTick, collectors, cregCalls, mticks, mtasks, metrics, merrs,
                   chanVars, ctxVars, wg, regVars, muReaders, sendVars,
                   consVars, stopVars, histVars>>

\* The number of goroutines the two nested loops of collectMetrics launch
\* for pair p = <<csoID, name>>: one when the name is in the local copy
\* (there is no isCheckEnabled test on this side).
MLaunches(copy, p) == IF copy[p[2]] # None THEN 1 ELSE 0

\* csoIDs := cm.getActiveCSOIDs(); for each csoID, for each (name, collector)
\* of the copy: `go func(n, c, cid)`.  collectMetrics returns and the loop
\* is back at its select.
collectMetrics_Launch(c) ==
    /\ ~panicked
    /\ mloop[c] = "launch"
    /\ mtasks' = [p \in MPairs |-> mtasks[p] + MLaunches(msnap[c], p)]
    /\ msnap' = [msnap EXCEPT ![c] = NoCollectors]
    /\ mloop' = [mloop EXCEPT ![c] = "select"]
    /\ UNCHANGED <<aggVars, vregVars, cmReaders, vloop, vsnap, vticks, taskVars,
                   lastTick, collectors, cmMReaders, cregCalls, mticks, metrics, merrs, chanVars,
                   ctxVars, wg, regVars, muReaders, sendVars, consVars,
                   stopVars, histVars>>

\* ------------------------------------------------------------ collect task
\* Variant of StoredAfter: storeMetric is called whatever Collect returned.
StoredAfter_Always(m, p, out) == [m EXCEPT ![p] = @ + 1]

\* if err != nil { log.Errorf(...); return }: the errors logged once the
\* task of pair p has ended with `out`.
LoggedAfter(e, p, out) == IF out = "err" THEN [e EXCEPT ![p] = @ + 1] ELSE e

\* if err != nil { log; return }; cm.storeMetric(cid, data): the
\* storeMetric calls made once the task of pair p has ended with `out`.
StoredAfter(m, p, out) == IF out = "err" THEN m ELSE [m EXCEPT ![p] = @ + 1]

\* The collect goroutine of pair p = <<cid, n>>: c.Collect(cm.ctx, cid)
\* returns.  With an error: log and return.  With data: storeMetric.  The
\* goroutine has no other statement.
Collect_Return(p, out) ==
    /\ ~panicked
    /\ mtasks[p] > 0
    /\ mtasks' = [mtasks EXCEPT ![p] = @ - 1]
    /\ metrics' = StoredAfter(metrics, p, out)
    /\ merrs' = LoggedAfter(merrs, p, out)
    /\ UNCHANGED <<aggVars, vregVars, cmReaders, loopVars, taskVars, lastTick,
                   collectors, cmMReaders, cregCalls, msnap, mticks, chanVars,
                   ctxVars, wg, regVars, muReaders, sendVars, consVars,
                   stopVars, histVars>>

\* ------------------------------------------------------------ specifications
Register == 
    \/ \E n \in Names, h \in Impls : RegisterHandler_Lock(n, h)
    \/ RegisterHandler_Unlock

Send == \E a \in Alerts : SendAlert(a)

StartSteps(c) ==
    \/ CMStart(c)
    \/ AMStart_Add(c)
    \/ AMStart_Go(c)

ConsumerSteps(c) ==
    \/ processAlerts_Recv(c)
    \/ processAlerts_Closed(c)
    \/ processAlerts_CtxDone(c)
    \/ processAlerts_Drain(c)
    \/ processAlerts_DrainEnd(c)
    \/ handleAlert_RLock(c)
    \/ handleAlert_Snapshot(c)
    \/ handleAlert_FanOut(c)
    \/ \E n \in Names, r \in {"ok", "err"} : Handle_Return(c, n, r)
    \/ handleAlert_Wait(c)

StopSteps(s) ==
    \/ CMStop_cancel(s)
    \/ AMStop_cancel(s)
    \/ AMStop_close(s)
    \/ AMStop_Wait(s)

\* The monitor's lifecycle calls made any number of times: Start up to twice,
\* Stop up to twice, and one alert more than the queue holds sent at any
\* moment.
Next ==
    \/ \E a \in 1..(Capacity + 1) : SendAlert(a)
    \/ \E c \in Consumers : StartSteps(c)
    \/ \E c \in Consumers : ConsumerSteps(c)
    \/ \E s \in Stoppers : StopSteps(s)

Spec == Init /\ [][Next]_vars

\* One Start and one Stop (the use cmd/server/main.go makes of the monitor),
\* with handlers registered and alerts sent at any moment.
NextRun ==
    \/ Register
    \/ Send
    \/ StartSteps(1)
    \/ ConsumerSteps(1)
    \/ StopSteps("s1")

SpecRun == Init /\ [][NextRun]_vars

\* A started consumer draining the queue, never stopped, with every Handle
\* call returning.  The Go scheduler runs every runnable goroutine: the
\* goroutine of AlertManager.Start, the processAlerts goroutine, each handler
\* goroutine and a RegisterHandler holding the lock all take their next step.
HandleAlertSteps(c) ==
    \/ handleAlert_RLock(c)
    \/ handleAlert_Snapshot(c)
    \/ handleAlert_FanOut(c)
    \/ handleAlert_Wait(c)

NextLive ==
    \/ Register
    \/ Send
    \/ StartSteps(1)
    \/ processAlerts_Recv(1)
    \/ HandleAlertSteps(1)
    \/ \E n \in Names, r \in {"ok", "err"} : Handle_Return(1, n, r)

Fairness ==
    /\ WF_vars(AMStart_Add(1) \/ AMStart_Go(1))
    /\ WF_vars(processAlerts_Recv(1) \/ HandleAlertSteps(1))
    /\ \A n \in Names : WF_vars(\E r \in {"ok", "err"} : Handle_Return(1, n, r))
    /\ WF_vars(RegisterHandler_Unlock)

SpecLive == Init /\ [][NextLive]_vars /\ Fairness

\* One Start and one Stop with alerts sent at any moment, every Handle call
\* returning, under the Go scheduler: the goroutine of AlertManager.Start,
\* the processAlerts goroutine, each handler goroutine and a Stop call that
\* has begun all take their next step when they can.  Nothing obliges a
\* caller to call Stop or SendAlert.
DispatcherSteps(c) ==
    \/ processAlerts_Recv(c)
    \/ processAlerts_Closed(c)
    \/ processAlerts_CtxDone(c)
    \/ processAlerts_Drain(c)
    \/ processAlerts_DrainEnd(c)
    \/ HandleAlertSteps(c)

NextStop ==
    \/ \E a \in 1..(Capacity + 1) : SendAlert(a)
    \/ StartSteps(1)
    \/ DispatcherSteps(1)
    \/ \E n \in Names, r \in {"ok", "err"} : Handle_Return(1, n, r)
    \/ StopSteps("s1")

FairStop ==
    /\ WF_vars(AMStart_Add(1) \/ AMStart_Go(1))
    /\ WF_vars(DispatcherSteps(1))
    /\ \A n \in Names : WF_vars(\E r \in {"ok", "err"} : Handle_Return(1, n, r))
    /\ WF_vars(AMStop_cancel("s1") \/ AMStop_close("s1") \/ AMStop_Wait("s1"))

SpecStop == Init /\ [][NextStop]_vars /\ FairStop

\* An aggregator built with any window and threshold, handed alerts while
\* time passes.
NextAgg ==
    \/ \E w \in 1..MaxWindow, th \in 1..MaxThreshold : NewAlertAggregator(w, th)
    \/ Tick
    \/ \E al \in AggInputs(now) : AddsMade < MaxAdds /\ Add(al)

SpecAgg == Init /\ [][NextAgg]_vars

\* The started consumer of NextLive with the clock running: alerts are sent
\* at different clock readings while earlier ones are queued, in fan-out or
\* dispatched.
NextClock ==
    \/ Tick
    \/ NextLive

SpecClock == Init /\ [][NextClock]_vars

\* The scheduler started once and stopped once, with validators registered
\* at any moment: the validation loop ticks, the tasks of each tick run
\* their Validate calls and submit their alerts.  The goroutine of
\* AlertManager.Start is not scheduled here, so that no consumer drains the
\* queue (the consumer is the subject of SpecRun).
ValidationSteps(c) ==
    \/ validationLoop_Tick(c)
    \/ validationLoop_Done(c)
    \/ metricLoop_Done(c)
    \/ runValidations_RLock(c)
    \/ runValidations_Snapshot(c)
    \/ runValidations_Launch(c)

RegisterV ==
    \/ \E r \in Registrants, n \in VNames : RegisterValidator_Lock(r, n, "CustomValidator")
    \/ RegisterValidator_Unlock

NextSched ==
    \/ RegisterV
    \/ CMStart(1)
    \/ ValidationSteps(1)
    \/ \E p \in Pairs, out \in Outcomes : Task_Return(p, out)
    \/ StopSteps("s1")

SpecSched == Init /\ [][NextSched]_vars

\* The metric side of the started scheduler: collectors registered at any
\* moment, the metric loop ticking, the collect tasks returning data or an
\* error, while a producer sends one alert more than the queue holds.
MetricSteps(c) ==
    \/ metricLoop_Tick(c)
    \/ collectMetrics_RLock(c)
    \/ collectMetrics_Snapshot(c)
    \/ collectMetrics_Launch(c)

RegisterC ==
    \/ \E r \in Registrants, n \in CNames : RegisterCollector_Lock(r, n, "CustomCollector")
    \/ RegisterCollector_Unlock

NextMetric ==
    \/ RegisterC
    \/ CMStart(1)
    \/ MetricSteps(1)
    \/ \E p \in MPairs, out \in MOutcomes : Collect_Return(p, out)
    \/ \E a \in 1..(Capacity + 1) : SendAlert(a)

SpecMetric == Init /\ [][NextMetric]_vars

\* Both tick loops of the started scheduler with both registries written at
\* any moment: validators and collectors are registered while the loops
\* take their snapshots and while the tasks of earlier ticks run.  The
\* Validate calls that return do so with an error, so that no alert is
\* submitted here (the alerts are the subject of SpecSched), and the Collect
\* calls that return do so with data (their errors are the subject of
\* SpecMetric).
LoopSteps(c) ==
    \/ validationLoop_Tick(c)
    \/ runValidations_RLock(c)
    \/ runValidations_Snapshot(c)
    \/ runValidations_Launch(c)
    \/ MetricSteps(c)

NextSnap ==
    \/ RegisterV
    \/ RegisterC
    \/ CMStart(1)
    \/ LoopSteps(1)
    \/ \E p \in Pairs : Task_Return(p, ErrOutcome)
    \/ \E p \in MPairs : Collect_Return(p, "data")

SpecSnap == Init /\ [][NextSnap]_vars

\* ============================================================ claims
\* ------------------------------------------------------------ C1
\* C1: a SendAlert made once Stop is in effect, or racing with Stop, fails
\* cleanly: no SendAlert call ever panics (no send on the closed channel).
C1_SendAfterStopFailsCleanly ==
    \A a \in Alerts : sendState[a] # "panicked"

\* ------------------------------------------------------------ C2
\* C2: when Stop is called after ContinuousMonitor.Start, with M alerts
\* buffered, every one of the M alerts has been fully dispatched (handleAlert
\* finished) by the time Stop has returned.
C2_StopDrainsBuffered ==
    \A s \in Stoppers :
        (pcStop[s] = "returned" /\ stopCtx[s].started) => stopCtx[s].buf \subseteq processed

\* ------------------------------------------------------------ C3
\* C3: Stop is idempotent-safe: a Stop call made on a manager whose earlier
\* Stop has already returned does not panic.
C3_StopIdempotent ==
    \A s \in Stoppers : stopCtx[s].late => pcStop[s] # "panicked"

\* ------------------------------------------------------------ C4
\* C4: alerts are dispatched in FIFO enqueue order: if a was accepted before
\* b, the fan-out for b has not started unless a has been fully processed.
C4_FifoDispatch ==
    \A i, j \in 1..Len(accepted) :
        (i < j /\ accepted[j] \in started) => accepted[i] \in processed

\* ------------------------------------------------------------ C9
\* The consumers whose current alert has a Handle call in progress.
InFanOut == {c \in Consumers : \E n \in Names : tasks[c][n] = "running"}

\* C9: alerts are processed strictly one at a time: Handle calls for two
\* different alerts are never in progress at once.
C9_OneAlertAtATime ==
    \A c, d \in InFanOut : cur[c] = cur[d]

\* ------------------------------------------------------------ C5
\* The SendAlert calls that have completed (accepted or dropped).
Sent == {a \in Alerts : sendState[a] \in {"queued", "dropped"}}

\* C5: with a started, draining consumer whose handlers all return, the first
\* Capacity enqueues are all accepted, and every accepted alert is eventually
\* dispatched (handleAlert completes for it).
C5_AcceptedEventuallyDispatched ==
    /\ [](Cardinality(Sent) <= Capacity => \A a \in Alerts : sendState[a] # "dropped")
    /\ \A a \in Alerts :
          (sendState[a] = "queued" /\ pc[1] # "idle") ~> (a \in processed)

\* Every alert was sent, one of them while the consumer was not yet started,
\* and all accepted ones have been dispatched.
C5_Witness ==
    /\ Sent = Alerts
    /\ Len(accepted) >= Capacity
    /\ \A i \in 1..Len(accepted) : accepted[i] \in processed

\* ------------------------------------------------------------ C6
\* No receive has taken an alert out of the queue yet.
NothingReceived == Len(alerts) = Len(accepted)

Min(x, y) == IF x <= y THEN x ELSE y

NextToSend ==
    {a \in Alerts : sendState[a] = "new" /\ \A b \in Alerts : b < a => sendState[b] # "new"}

BeforeStop == \A s \in Stoppers : pcStop[s] = "idle"

\* C7: before Stop, a SendAlert call can always take its step, whatever the
\* state of the queue and of the consumer: it never waits for another process.
C7_EnqueueNeverBlocks ==
    BeforeStop => \A a \in NextToSend : ENABLED SendAlert(a)

\* A SendAlert call is about to be made with the queue full and the consumer
\* stalled inside a handler that has not returned.
C7_Witness ==
    /\ BeforeStop
    /\ NextToSend # {}
    /\ Len(alerts) = Capacity
    /\ InFanOut # {}

\* ------------------------------------------------------------ C8
\* C8: during the fan-out of an alert every handler of the snapshot, and no
\* other, has a goroutine; Handle has been called once on each that has
\* returned and never twice; and once all have returned, with or without an
\* error, Handle has been called exactly once on each handler of the
\* snapshot and handleAlert goes on to count the alert as processed.
C8_EachHandlerOnce ==
    \A c \in Consumers : pc[c] = "wait" =>
        /\ \A n \in Names : (tasks[c][n] # "none") <=> (snap[c][n] # None)
        /\ \A n \in Names : calls[c][n] = IF tasks[c][n] \in {"ok", "err"} THEN 1 ELSE 0
        /\ WaitPasses(c) =>
              /\ \A n \in Names : calls[c][n] = IF snap[c][n] # None THEN 1 ELSE 0
              /\ ~panicked => ENABLED handleAlert_Wait(c)

\* The fan-out of an alert with two handlers in its snapshot is complete and
\* one of the two returned an error.
C8_Witness ==
    \E c \in Consumers :
        /\ pc[c] = "wait"
        /\ WaitPasses(c)
        /\ Registered(snap[c]) = Names
        /\ \E n, m \in Names : tasks[c][n] = "err" /\ tasks[c][m] = "ok"

\* ------------------------------------------------------------ C10
\* C10: the handlers run for an alert are those of the snapshot taken for it;
\* no consumer holds the registry lock while one of its Handle calls is
\* running; and, in a live process, a RegisterHandler call can take the lock
\* whenever no other RegisterHandler holds it and no consumer is in the
\* middle of its copy.
C10_SnapshotDiscipline ==
    /\ \A c \in InFanOut : c \notin muReaders
    /\ \A c \in Consumers : pc[c] = "wait" => bound[c] = snap[c]
    /\ (~panicked /\ muWriter = <<>> /\ regCalls < MaxRegs
           /\ \A c \in Consumers : pc[c] # "rlocked")
          => \A n \in Names, h \in Impls : ENABLED RegisterHandler_Lock(n, h)

\* A RegisterHandler completed while a fan-out was in flight: the registry
\* differs from the snapshot the running handlers were taken from.
C10_Witness ==
    \E c \in InFanOut : handlers # snap[c] /\ bound[c] = snap[c]


\* ------------------------------------------------------------ C11
\* The number of places an alert is held in: buffered in the channel, or the
\* current alert of a consumer that has not finished handleAlert for it.
InQueue(a) == Cardinality({i \in 1..Len(alerts) : alerts[i] = a})

InHand(a) == Cardinality({c \in Consumers : cur[c] = a})

\* C11: handleAlert is called at most once for any alert, never for an alert
\* that was dropped or not sent, and an accepted alert is never lost: it is
\* in exactly one place, the queue (not yet dispatched), a consumer's hands
\* (dispatched once, in progress) or the processed set (dispatched once).
C11_DispatchedExactlyOnce ==
    \A a \in Alerts :
        /\ dispatches[a] <= 1
        /\ sendState[a] # "queued" =>
              dispatches[a] = 0 /\ InQueue(a) = 0 /\ InHand(a) = 0 /\ a \notin processed
        /\ sendState[a] = "queued" =>
              /\ InQueue(a) + InHand(a) + (IF a \in processed THEN 1 ELSE 0) = 1
              /\ dispatches[a] = 1 - InQueue(a)

\* The queue overflowed: an alert was dropped, and every accepted alert has
\* been dispatched and processed.
C11_Witness ==
    /\ \E a \in Alerts : sendState[a] = "dropped"
    /\ Len(accepted) >= Capacity
    /\ \A i \in 1..Len(accepted) : accepted[i] \in processed /\ dispatches[accepted[i]] = 1


\* ------------------------------------------------------------ C12
\* The i-th Add call made with key k.
Call(k, i) == aggCalls[k][i]

\* A timestamp lies within the window at clock reading `at`: its age is less
\* than the window.
InWindow(ts, at) == at - ts < aggWindow

\* C12: for any key and threshold T >= 1, when the first i alerts added with
\* the key all have timestamps within the window at the i-th call, that call
\* returns true exactly when i >= T (false on calls 1..T-1, true on call T);
\* and every Add returns true exactly when the key's list, pruned and with
\* the alert appended, has length >= T.
C12_ThresholdReached ==
    aggMade =>
        \A k \in AggKeys :
            /\ \A i \in 1..Len(aggCalls[k]) :
                  /\ (\A j \in 1..i : InWindow(Call(k, j).alert.Timestamp, Call(k, i).at))
                        => (Call(k, i).ret <=> i >= aggThreshold)
                  /\ Call(k, i).ret <=> Call(k, i).count >= aggThreshold
            /\ aggCalls[k] # <<>> =>
                  Call(k, Len(aggCalls[k])).count = Len(aggAlerts[k])

\* Threshold 3: three alerts added with one key at three different clock
\* readings, all within the window at the third call; the first two calls
\* returned false and the third true.
C12_Witness ==
    /\ aggThreshold = 3
    /\ \E k \in AggKeys :
          /\ Len(aggCalls[k]) = 3
          /\ \A j \in 1..3 : InWindow(Call(k, j).alert.Timestamp, Call(k, 3).at)
          /\ Call(k, 1).at < Call(k, 3).at
          /\ ~Call(k, 1).ret /\ ~Call(k, 2).ret /\ Call(k, 3).ret

\* ------------------------------------------------------------ C13
\* A timestamp has aged out of the window at clock reading `at`: its age is
\* more than the window.
AgedOut(ts, at) == at - ts > aggWindow

\* C13: an Add made when every earlier alert added with the same key has aged
\* out of the window (the first Add with a key included) leaves an effective
\* count of 1 and returns false unless the threshold is 1.
C13_AgedOutCountsAsFirst ==
    aggMade =>
        \A k \in AggKeys : \A i \in 1..Len(aggCalls[k]) :
            (\A j \in 1..(i - 1) : AgedOut(Call(k, j).alert.Timestamp, Call(k, i).at))
                => /\ Call(k, i).count = 1
                   /\ Call(k, i).ret <=> aggThreshold = 1

\* Threshold above 1: a second alert was added with a key after the first one
\* had aged out, and the call returned false.
C13_Witness ==
    /\ aggThreshold > 1
    /\ \E k \in AggKeys :
          /\ Len(aggCalls[k]) = 2
          /\ AgedOut(Call(k, 1).alert.Timestamp, Call(k, 2).at)
          /\ Call(k, 2).count = 1
          /\ ~Call(k, 2).ret

\* ------------------------------------------------------------ C14
\* The dedup identity of an alert.
Triple(al) == <<al.CSOId, al.Severity, al.Title>>

\* C14: alerts are counted together only if their entity identifier, severity
\* and title are all equal: the alerts of one list all have the same triple.
C14_TripleIsIdentity ==
    \A k \in AggKeys : \A i, j \in 1..Len(aggAlerts[k]) :
        Triple(aggAlerts[k][i]) = Triple(aggAlerts[k][j])


\* ------------------------------------------------------------ C15
\* The alerts built for pair p that have been handed to SendAlert.
AlertsOf(p) == {a \in Alerts : alertPair[a] = p}

\* C15: when the Validate call of a task of pair p returns an error, no alert
\* is built or enqueued, the tasks in flight for every other pair stay in
\* flight (only p's goroutine ends) and the validation loop stays where it
\* is; every task launched is in flight or has returned; and the validation
\* loop exits only on the cancelled context.
C15_ErrorSkipsOnlyItsPair ==
    /\ [](\A p \in Pairs : launched[p] = vtasks[p] + returned[p])
    /\ [](\A c \in Consumers : vloop[c] = "exited" => cmDone)
    /\ [][\A p \in Pairs :
            Task_Return(p, ErrOutcome) =>
                /\ alertPair' = alertPair
                /\ sendState' = sendState
                /\ alerts' = alerts
                /\ \A q \in Pairs : vtasks'[q] = IF q = p THEN vtasks[q] - 1 ELSE vtasks[q]
                /\ vloop' = vloop]_vars

\* One tick: the Validate call of one pair returned an error and no alert was
\* built for it, the other pair's call returned a result for which an alert
\* was enqueued, and the validation loop is still at its select.
C15_Witness ==
    \E p, q \in Pairs :
        /\ p # q
        /\ launched[p] = 1 /\ launched[q] = 1
        /\ returned[p] = 1 /\ returned[q] = 1
        /\ p \in failed /\ q \notin failed
        /\ AlertsOf(p) = {}
        /\ \E a \in AlertsOf(q) : sendState[a] = "queued"
        /\ vloop[1] = "select" /\ ~cmDone


\* ------------------------------------------------------------ C16
\* The step hands an alert built for pair p to SendAlert.
Submits(p) ==
    \E a \in Alerts :
        /\ alertPair[a] = <<>> /\ alertPair'[a] = p
        /\ sendState[a] = "new" /\ sendState'[a] # "new"

\* C16: when a Validate call of pair p returns a result r without error, an
\* alert for p is handed to SendAlert in that step if and only if r is not
\* valid or its score is strictly below the alert threshold; in particular a
\* valid result scoring exactly the threshold raises no alert.  No alert is
\* built for a pair otherwise: never more alerts than returned calls.
C16_AlertIffFailing ==
    /\ [](\A p \in Pairs : Cardinality(AlertsOf(p)) <= returned[p])
    /\ [][\A p \in Pairs, r \in Results :
            Task_Return(p, r) =>
                /\ Submits(p) <=> (~r.Valid \/ r.Score < AlertThreshold)
                /\ (r.Valid /\ r.Score = AlertThreshold) => alertPair' = alertPair
                /\ \A q \in Pairs : q # p => ~Submits(q)]_vars

\* Two Validate calls of one pair have returned, neither with an error: one
\* raised an alert, which was enqueued, and the other did not.
C16_Witness ==
    \E p \in Pairs :
        /\ returned[p] = 2
        /\ p \notin failed
        /\ Cardinality(AlertsOf(p)) = 1
        /\ \A a \in AlertsOf(p) : sendState[a] = "queued"

RunningLoops(l) == {c \in Consumers : l[c] \notin {"none", "exited"}}

RunningConsumers == {c \in Consumers : pc[c] \notin {"idle", "exit"}}

\* C18: Start takes effect only from Idle: at no time is more than one
\* validation loop, more than one metric loop or more than one dispatcher
\* consumer (launched or about to be) running.
C18_StartOnlyFromIdle ==
    /\ Cardinality(RunningLoops(vloop)) <= 1
    /\ Cardinality(RunningLoops(mloop)) <= 1
    /\ Cardinality(RunningConsumers) <= 1

\* ------------------------------------------------------------ C19
\* C19: the SendAlert call of a validation task never panics, also when the
\* task's Validate call returns after Stop.
C19_LateTaskNeverPanics ==
    \A a \in Alerts : alertPair[a] # <<>> => sendState[a] # "panicked"

\* ------------------------------------------------------------ C20
\* C20: an Alert object has no ID before its SendAlert call; the call gives
\* it the clock reading of that moment; and from then on, accepted or
\* dropped, its ID is the same in every later state, whatever SendAlert,
\* consumer and handler steps follow.
C20_IdAssignedOnce ==
    /\ [](\A a \in Alerts : alertID[a] = 0 <=> sendState[a] = "new")
    /\ [][\A a \in Alerts :
            /\ sendState[a] # "new" => alertID'[a] = alertID[a]
            /\ (sendState[a] = "new" /\ sendState'[a] # "new") => alertID'[a] = now]_vars

\* Two alerts accepted at different clock readings: the earlier one has been
\* dispatched, the later one is queued or in fan-out, and their IDs are the
\* two readings.
C20_Witness ==
    \E a, b \in Alerts :
        /\ sendState[a] = "queued" /\ sendState[b] = "queued"
        /\ a \in processed /\ b \notin processed
        /\ alertID[a] < alertID[b]
        /\ alertID[b] < now


\* ------------------------------------------------------------ C22
\* The earlier Add calls of key k whose alert is not older than the window at
\* the i-th call: timestamp >= now - window.
NotOlder(k, i) ==
    {j \in 1..(i - 1) : Call(k, j).alert.Timestamp >= Call(k, i).at - aggWindow}

\* C22: on every Add the entries kept for the key are exactly the earlier
\* alerts with timestamp >= now - window, so that the count at the return is
\* their number plus one; an entry with timestamp = now - window is kept.
C22_BoundaryKept ==
    \A k \in AggKeys : \A i \in 1..Len(aggCalls[k]) :
        Call(k, i).count = Cardinality(NotOlder(k, i)) + 1

\* ------------------------------------------------------------ C28
\* The latest Add call of key k.
LastCall(k) == Call(k, Len(aggCalls[k]))

\* C28: an Add changes the list of its alert's key and of no other key; no
\* step empties the list of a key that has one; and between its Add calls a
\* key's list stays as its latest Add left it, however much time passes.
C28_AddTouchesOnlyItsKey ==
    /\ [][\A al \in AggInputs(now) :
            Add(al) => \A k \in AggKeys : k # KeyOf(al) => aggAlerts'[k] = aggAlerts[k]]_vars
    /\ [][\A k \in AggKeys : aggAlerts[k] # <<>> => aggAlerts'[k] # <<>>]_vars
    /\ [](\A k \in AggKeys : aggCalls[k] # <<>> => aggAlerts[k] = LastCall(k).list)

\* Two keys hold alerts: the entries of one have all aged out of the window
\* and are still stored, while the other key received an Add later.
C28_Witness ==
    \E k, j \in AggKeys :
        /\ k # j
        /\ aggAlerts[k] # <<>> /\ aggAlerts[j] # <<>>
        /\ \A i \in 1..Len(aggAlerts[k]) : AgedOut(aggAlerts[k][i].Timestamp, now)
        /\ LastCall(j).at > LastCall(k).at
        /\ AgedOut(aggAlerts[k][1].Timestamp, LastCall(j).at)

\* ------------------------------------------------------------ C30
\* C30: once an Add of a key has returned true, every later Add of the key
\* made while all the entries counted by the earlier call are still inside
\* the window returns true; and the list an Add leaves ends with the alert
\* just added, holds before it only entries of the key's previous list that
\* are inside the window at the call, in their order, and so has at least
\* one entry.
C30_Stickiness ==
    aggMade =>
        \A k \in AggKeys : \A j \in 1..Len(aggCalls[k]) :
            /\ \A i \in 1..(j - 1) :
                  (Call(k, i).ret
                     /\ \A m \in 1..Len(Call(k, i).list) :
                           InWindow(Call(k, i).list[m].Timestamp, Call(k, j).at))
                    => Call(k, j).ret
            /\ Call(k, j).count >= 1
            /\ Call(k, j).list[Call(k, j).count] = Call(k, j).alert
            /\ \A m \in 1..(Call(k, j).count - 1) :
                  /\ InWindow(Call(k, j).list[m].Timestamp, Call(k, j).at)
                  /\ j > 1
                  /\ \E n \in 1..Len(Call(k, j - 1).list) :
                        Call(k, j - 1).list[n] = Call(k, j).list[m]

\* Threshold 2: the second Add of a key returned true and the third, made at
\* a later clock reading with both earlier entries still inside the window,
\* returned true as well.
C30_Witness ==
    /\ aggThreshold = 2
    /\ \E k \in AggKeys :
          /\ Len(aggCalls[k]) = 3
          /\ ~Call(k, 1).ret /\ Call(k, 2).ret /\ Call(k, 3).ret
          /\ Call(k, 3).at > Call(k, 2).at
          /\ Call(k, 3).count = 3


\* ------------------------------------------------------------ C29
\* The alerts the queue has accepted.
Accepted == {a \in Alerts : sendState[a] = "queued"}

\* C29 as stated: any two distinct accepted alerts have different IDs.
C29_IdsUnique ==
    \A a, b \in Accepted : a # b => alertID[a] # alertID[b]

\* C29 as amended: two distinct accepted alerts have different IDs exactly
\* when their SendAlert calls took different clock readings; two calls that
\* took the same reading gave their alerts the same ID.
C29_IdsUniquePerReading ==
    \A a, b \in Accepted : a # b =>
        (alertID[a] # alertID[b] <=> sentAt[a] # sentAt[b])

\* Three accepted alerts: two were sent at the same clock reading and carry
\* the same ID, the third was sent at a later reading and carries another.
C29_Witness ==
    \E a, b, c \in Accepted :
        /\ a # b
        /\ sentAt[a] = sentAt[b] /\ alertID[a] = alertID[b]
        /\ sentAt[c] > sentAt[a] /\ alertID[c] # alertID[a]


\* ------------------------------------------------------------ C26
\* C26: RegisterHandler(name, h) inserts or replaces.  When the call completes
\* the registry maps name to h and every other name to what it mapped to
\* before; the set of registered names grows by name only when name was
\* absent.  A snapshot copies the registry as it is when the snapshot is
\* taken, and the fan-out binds each goroutine to the handler of the snapshot:
\* so an alert whose snapshot is taken after the call invokes h.
C26_InsertOrReplace ==
    [][ /\ (muWriter # <<>> /\ muWriter' = <<>>) =>
            /\ handlers'[muWriter[1]] = muWriter[2]
            /\ \A n \in Names \ {muWriter[1]} : handlers'[n] = handlers[n]
            /\ Registered(handlers') = Registered(handlers) \cup {muWriter[1]}
        /\ \A c \in Consumers :
            /\ (pc[c] = "rlocked" /\ pc'[c] = "spawn") => snap'[c] = handlers
            /\ (pc[c] = "spawn" /\ pc'[c] = "wait") =>
                 /\ bound'[c] = snap[c]
                 /\ \A n \in Names :
                        tasks'[c][n] = "running" <=> snap[c][n] # None ]_vars

\* "webhook", registered with WebhookHandler at construction, has been
\* re-registered with CustomHandler; the registry still has one name; an
\* alert whose snapshot was taken afterwards has had CustomHandler invoked.
C26_Witness ==
    /\ regCalls >= 1
    /\ muWriter = <<>>
    /\ handlers["webhook"] = "CustomHandler"
    /\ Registered(handlers) = {"webhook"}
    /\ pc[1] = "wait"
    /\ snap[1]["webhook"] = "CustomHandler"
    /\ bound[1]["webhook"] = "CustomHandler"
    /\ tasks[1]["webhook"] \notin {"none", "running"}


\* ------------------------------------------------------------ C23
\* ContinuousMonitor.Stop has returned to its caller.
StopReturned == \E s \in Stoppers : pcStop[s] = "returned"

\* C23: after ContinuousMonitor.Stop has returned no tick starts, no Validate
\* task is launched and no task of the scheduler submits an alert.
C23_QuietAfterStop ==
    [][StopReturned =>
          /\ vticks' = vticks
          /\ launched' = launched
          /\ alertPair' = alertPair]_vars


\* ------------------------------------------------------------ C24
\* C24: tick dispatch is fire-and-forget.  The step that launches a tick's
\* tasks leaves the validation loop at its select, whatever tasks are in
\* flight, and ends none of them; and whenever the loop is at its select the
\* next tick can fire, whether or not earlier tasks have returned.
C24_FireAndForget ==
    /\ [][\A c \in Consumers :
            (vloop[c] = "launch" /\ vloop'[c] # "launch") =>
                /\ vloop'[c] = "select"
                /\ \A p \in Pairs : vtasks'[p] >= vtasks[p]]_vars
    /\ [](\A c \in Consumers :
            (~panicked /\ vloop[c] = "select" /\ vticks < MaxTicks)
                => ENABLED validationLoop_Tick(c))

\* Two ticks have fired and launched their tasks; no Validate call of some
\* pair has returned, so two runs of that pair are in flight, and the loop is
\* at its select again.
C24_Witness ==
    \E p \in Pairs :
        /\ vticks >= 2
        /\ launched[p] >= 2
        /\ returned[p] = 0
        /\ vtasks[p] >= 2
        /\ vloop[1] = "select"


\* ------------------------------------------------------------ C25
\* The consumer has been started: AlertManager.Start has run, the
\* processAlerts goroutine exists.
ConsumerStarted == pc[1] \notin {"idle", "add", "go"}

\* C25: with the consumer started and every Handle call returning, a Stop
\* call that has begun eventually returns.
C25_StopTerminates ==
    (pcStop["s1"] # "idle" /\ ConsumerStarted) ~> pcStop["s1"] = "returned"


\* ------------------------------------------------------------ C21
\* A step of the metric side: the metric loop, collectMetrics or a collect
\* task moves.
MetricStep ==
    \/ mticks' # mticks
    \/ msnap' # msnap
    \/ mtasks' # mtasks
    \/ metrics' # metrics
    \/ merrs' # merrs
    \/ \E c \in Consumers : mloop[c] # "none" /\ mloop'[c] # mloop[c]

\* C21: a metric tick never submits an alert.  Each collect task that ends
\* either stores its value (no error) or logs its error and stores nothing,
\* and touches no other pair's task or stored values; and no step of the
\* metric loop, of collectMetrics or of a collect task changes the alert
\* queue, the state of any alert or the channel.
C21_MetricTickNeverAlerts ==
    [][ /\ MetricStep =>
            /\ alerts' = alerts
            /\ closed' = closed
            /\ sendState' = sendState
            /\ alertID' = alertID
            /\ accepted' = accepted
            /\ alertPair' = alertPair
        /\ \A p \in MPairs : mtasks'[p] < mtasks[p] =>
            /\ \A q \in MPairs \ {p} :
                  /\ mtasks'[q] = mtasks[q]
                  /\ metrics'[q] = metrics[q]
                  /\ merrs'[q] = merrs[q]
            /\ \/ metrics'[p] = metrics[p] + 1 /\ merrs'[p] = merrs[p]
               \/ metrics'[p] = metrics[p] /\ merrs'[p] = merrs[p] + 1 ]_vars

\* A metric tick has run to its end with the queue holding an alert: the
\* Collect call of one pair returned an error and nothing was stored for it,
\* the value of the other pair was stored, and the queue still holds the
\* alert a producer sent.
C21_Witness ==
    \E p, q \in MPairs :
        /\ p # q
        /\ merrs[p] = 1 /\ metrics[p] = 0
        /\ metrics[q] = 1 /\ merrs[q] = 0
        /\ \A r \in MPairs : mtasks[r] = 0
        /\ mticks >= 1
        /\ alerts # <<>>


\* ------------------------------------------------------------ C27
\* Loop goroutine c takes its snapshot of the validators, or of the
\* collectors, in this step.
TakesVSnapshot(c) == vloop[c] = "rlocked" /\ vloop'[c] = "launch"
TakesMSnapshot(c) == mloop[c] = "rlocked" /\ mloop'[c] = "launch"
\* Loop goroutine c launches the tasks of its tick in this step.
LaunchesVTasks(c) == vloop[c] = "launch" /\ vloop'[c] # "launch"
LaunchesMTasks(c) == mloop[c] = "launch" /\ mloop'[c] # "launch"

\* C27: both registries are read by snapshot.  The snapshot is the registry
\* as it is when it is taken, under the read lock, which that same step
\* releases; the tasks a tick launches are those of its snapshot, whatever
\* has been registered since, and are launched by a goroutine that does not
\* hold the lock; a goroutine holding the read lock can always take its next
\* step, whatever tasks are running; and a Register call finds the lock free
\* whenever no snapshot is being taken and no other Register call is under
\* way, whatever tasks are running.
C27_SnapshotRegistries ==
    /\ [][\A c \in Consumers :
            /\ TakesVSnapshot(c) =>
                  /\ c \in cmReaders /\ cmWriter = <<>>
                  /\ vsnap'[c] = validators
                  /\ c \notin cmReaders'
            /\ TakesMSnapshot(c) =>
                  /\ c \in cmMReaders /\ cmWriter = <<>>
                  /\ msnap'[c] = collectors
                  /\ c \notin cmMReaders'
            /\ LaunchesVTasks(c) =>
                  /\ c \notin cmReaders
                  /\ \A p \in Pairs :
                        vtasks'[p] - vtasks[p] =
                            IF vsnap[c][p[2]] # None /\ p[2] \in EnabledChecks
                            THEN 1 ELSE 0
            /\ LaunchesMTasks(c) =>
                  /\ c \notin cmMReaders
                  /\ \A p \in MPairs :
                        mtasks'[p] - mtasks[p] =
                            IF msnap[c][p[2]] # None THEN 1 ELSE 0]_vars
    /\ [](\A c \in Consumers :
            /\ c \in cmReaders <=> vloop[c] = "rlocked"
            /\ c \in cmMReaders <=> mloop[c] = "rlocked"
            /\ (c \in cmReaders /\ ~panicked) => ENABLED runValidations_Snapshot(c)
            /\ (c \in cmMReaders /\ ~panicked) => ENABLED collectMetrics_Snapshot(c))
    /\ [](\A r \in Registrants :
            (~panicked /\ cmWriter = <<>> /\ cmReaders = {} /\ cmMReaders = {}) =>
                /\ r \notin vregCalls =>
                      ENABLED RegisterValidator_Lock(r, "ksi", "CustomValidator")
                /\ r \notin cregCalls =>
                      ENABLED RegisterCollector_Lock(r, "custom", "CustomCollector"))

\* Two metric ticks and a validation tick have launched their tasks and no
\* task has returned.  The "custom" collector was registered after the
\* first metric snapshot: the first tick launched only the "compliance"
\* tasks, the second launched both.  The "ksi" validator was replaced after
\* the validation snapshot: the tasks in flight are those of the snapshot,
\* which holds the validator registered at construction.  Nobody holds the
\* lock.
C27_Witness ==
    /\ mticks = 2 /\ mloop[1] = "select"
    /\ collectors["custom"] = "CustomCollector"
    /\ \A cid \in CSOIds :
          /\ mtasks[<<cid, "compliance">>] = 2
          /\ mtasks[<<cid, "custom">>] = 1
          /\ metrics[<<cid, "compliance">>] = 0
          /\ metrics[<<cid, "custom">>] = 0
    /\ vticks = 1 /\ vloop[1] = "select"
    /\ validators["ksi"] = "CustomValidator"
    /\ lastTick.made /\ lastTick.copy["ksi"] = "KSIValidator"
    /\ \A cid \in CSOIds : vtasks[<<cid, "ksi">>] = 1 /\ returned[<<cid, "ksi">>] = 0
    /\ cmWriter = <<>> /\ cmReaders = {} /\ cmMReaders = {}

====
